---- MODULE Spec2Model ----
(***************************************************************************)
(* Model of the lab scheduler of streamlit_lab_scheduler.py:               *)
(* schedule_for_contract (the greedy serial scheduler), the cost / missed  *)
(* summary computed from its result, and the script being run again by     *)
(* Streamlit on the same inputs.                                           *)
(*                                                                         *)
(* Text is modelled as a sequence of atoms: an atom is a separator (","    *)
(* or ";"), a blank " ", or a word without separators and blanks.  The     *)
(* string operations of the code (replace, split, strip, lower) are        *)
(* modelled on these sequences.  A missing cell (NaN) is the text NaN.     *)
(* Dates are records [y, m, d] with the arithmetic of datetime.date.       *)
(***************************************************************************)
EXTENDS Integers, Sequences, FiniteSets, TLC

(* ------------------------------ bounds --------------------------------- *)

\* largest number of rows of the Labs table
MaxLabs == 2

\* largest number of ";"/"," separated segments of a generated required_tests
MaxRequired == 3

(* ------------------------------ text ----------------------------------- *)

\* a missing cell, as pandas reads it
NaN == <<"<NaN>">>

\* str(x) of a cell: the text itself, "nan" for a missing cell
Str(x) == IF x = NaN THEN <<"nan">> ELSE x

\* str.lower() of one atom
LowerAtom(a) ==
  CASE a = "Residue" -> "residue"
    [] a = "RESIDUE" -> "residue"
    [] a = "Purity"  -> "purity"
    [] a = "PURITY"  -> "purity"
    [] a = "Moisture" -> "moisture"
    [] a = "MOISTURE" -> "moisture"
    [] a = "All"     -> "all"
    [] a = "Winter"  -> "winter"
    [] a = "+4C"     -> "+4c"
    [] a = "-20C"    -> "-20c"
    [] a = "Room"    -> "room"
    [] OTHER         -> a

\* str.lower()
RECURSIVE Lower(_)
Lower(s) == IF s = <<>> THEN <<>> ELSE <<LowerAtom(Head(s))>> \o Lower(Tail(s))

\* str.replace(';', ',')
RECURSIVE ReplaceSemi(_)
ReplaceSemi(s) ==
  IF s = <<>> THEN <<>>
  ELSE <<IF Head(s) = ";" THEN "," ELSE Head(s)>> \o ReplaceSemi(Tail(s))

RECURSIVE LStrip(_)
LStrip(s) == IF s # <<>> /\ Head(s) = " " THEN LStrip(Tail(s)) ELSE s

RECURSIVE RStrip(_)
RStrip(s) ==
  IF s # <<>> /\ s[Len(s)] = " " THEN RStrip(SubSeq(s, 1, Len(s) - 1)) ELSE s

\* str.strip()
Strip(s) == RStrip(LStrip(s))

\* str.split(','): the pieces between the commas, empty pieces included
RECURSIVE SplitAcc(_, _, _)
SplitAcc(s, cur, acc) ==
  IF s = <<>> THEN Append(acc, cur)
  ELSE IF Head(s) = "," THEN SplitAcc(Tail(s), <<>>, Append(acc, cur))
  ELSE SplitAcc(Tail(s), Append(cur, Head(s)), acc)

Split(s) == SplitAcc(s, <<>>, <<>>)

RECURSIVE StripNonEmpty(_)
StripNonEmpty(pieces) ==
  IF pieces = <<>> THEN <<>>
  ELSE IF Strip(Head(pieces)) # <<>>
       THEN <<Strip(Head(pieces))>> \o StripNonEmpty(Tail(pieces))
       ELSE StripNonEmpty(Tail(pieces))

\* [t.strip() for t in str(x).replace(';', ',').split(',') if t.strip()]
ParseField(x) == StripNonEmpty(Split(ReplaceSemi(Str(x))))

\* [s.strip().lower() for s in str(x).replace(';', ',').split(',') if s.strip()]
RECURSIVE LowerEach(_)
LowerEach(l) == IF l = <<>> THEN <<>> ELSE <<Lower(Head(l))>> \o LowerEach(Tail(l))

ParseLower(x) == LowerEach(ParseField(x))

\* x in list
InList(x, l) == \E i \in 1..Len(l) : l[i] = x

(* ------------------------------ dates ---------------------------------- *)

Date(y, m, d) == [y |-> y, m |-> m, d |-> d]

IsLeap(y) == (y % 4 = 0 /\ y % 100 # 0) \/ y % 400 = 0

DaysInMonth(y, m) ==
  IF m = 2 THEN (IF IsLeap(y) THEN 29 ELSE 28)
  ELSE IF m \in {4, 6, 9, 11} THEN 30 ELSE 31

RECURSIVE DaysBeforeMonth(_, _)
DaysBeforeMonth(y, m) ==
  IF m = 1 THEN 0 ELSE DaysBeforeMonth(y, m - 1) + DaysInMonth(y, m - 1)

DaysBeforeYear(y) ==
  (y - 1) * 365 + ((y - 1) \div 4) - ((y - 1) \div 100) + ((y - 1) \div 400)

\* date.toordinal()
ToOrdinal(dt) == DaysBeforeYear(dt.y) + DaysBeforeMonth(dt.y, dt.m) + dt.d

NextDay(dt) ==
  IF dt.d < DaysInMonth(dt.y, dt.m) THEN Date(dt.y, dt.m, dt.d + 1)
  ELSE IF dt.m < 12 THEN Date(dt.y, dt.m + 1, 1)
  ELSE Date(dt.y + 1, 1, 1)

PrevDay(dt) ==
  IF dt.d > 1 THEN Date(dt.y, dt.m, dt.d - 1)
  ELSE IF dt.m > 1 THEN Date(dt.y, dt.m - 1, DaysInMonth(dt.y, dt.m - 1))
  ELSE Date(dt.y - 1, 12, 31)

\* date + timedelta(days = n)
RECURSIVE AddDays(_, _)
AddDays(dt, n) ==
  IF n = 0 THEN dt
  ELSE IF n > 0 THEN AddDays(NextDay(dt), n - 1)
  ELSE AddDays(PrevDay(dt), n + 1)

\* (a - b).days
DaysBetween(a, b) == ToOrdinal(a) - ToOrdinal(b)

\* a < b on dates
DateLess(a, b) ==
  \/ a.y < b.y
  \/ a.y = b.y /\ a.m < b.m
  \/ a.y = b.y /\ a.m = b.m /\ a.d < b.d

(* ------------------------------ season --------------------------------- *)

months_to_season(month) ==
  IF month \in {12, 1, 2} THEN "winter"
  ELSE IF month \in {3, 4, 5} THEN "spring"
  ELSE IF month \in {6, 7, 8} THEN "summer"
  ELSE "autumn"

(* ------------------------------ inputs --------------------------------- *)

Lab(id, name, supported, capacity, turnaround, storage, seasons, price) ==
  [lab_id |-> id, name |-> name, supported_tests |-> supported,
   capacity_per_day |-> capacity, turnaround_days |-> turnaround,
   storage_conditions_accepted |-> storage, seasons_allowed |-> seasons,
   price_per_test |-> price]

\* sample_labs(), first row
LabA == Lab(1, "Lab A", <<"Residue", ",", " ", "Purity">>, 10, 7,
            <<"+4C", ",", " ", "-20C">>, <<"all">>, 120)

\* sample_labs(), second row
LabB == Lab(2, "Lab B", <<"Residue">>, 5, 14,
            <<"+4C">>, <<"summer", ",", "autumn">>, 100)

\* a lab as fast and as dear as Lab A, written with other separators and case
LabC == Lab(3, "Lab C", <<"purity", ";", "RESIDUE">>, 1, 7,
            <<"room", ";", "+4c">>, <<"All">>, 120)

\* a lab as fast as Lab A and cheaper, that works in winter and summer only
LabD == Lab(4, "Lab D", <<" ", "Residue", ";", " ", "Purity", " ">>, 0, 7,
            <<"Room", ",", "+4C">>, <<"Winter", ";", "summer">>, 90)

LabPool == {LabA, LabB, LabC, LabD}

\* the Labs tables: up to MaxLabs different labs of the pool, in any row order
LabTables ==
  UNION {{t \in [1..n -> LabPool] : \A i, j \in 1..n : i # j => t[i] # t[j]}
         : n \in 0..MaxLabs}

Test(id, name, duration, storage, season_required) ==
  [test_id |-> id, test_name |-> name, duration_days |-> duration,
   required_storage_condition |-> storage, season_required |-> season_required]

\* sample_tests()
SampleTests ==
  <<Test(1, <<"Residue">>, 3, <<"+4C">>, <<>>),
    Test(2, <<"Purity">>, 2, <<"room">>, <<>>)>>

\* names in another case, two rows for one name, a test whose storage
\* condition is the empty text and one whose storage condition cell is missing
OtherTests ==
  <<Test(1, <<"residue">>, 1, <<>>, <<"summer">>),
    Test(2, <<"RESIDUE">>, 5, <<"-20C">>, <<>>),
    Test(3, <<"PURITY">>, 4, NaN, NaN)>>

TestTables == {SampleTests, OtherTests}

\* the segments a generated required_tests text is made of: a name, a name in
\* another case between blanks, and a blank piece followed by a name that no
\* Tests table knows
SegmentPool == {<<"Residue">>, <<" ", "purity", " ">>, <<" ", ",", "Moisture">>}

\* the separator written after the i-th segment
SepAfter(i) == IF i % 2 = 1 THEN ";" ELSE ","

RECURSIVE JoinFrom(_, _)
JoinFrom(segs, i) ==
  IF i > Len(segs) THEN <<>>
  ELSE IF i = Len(segs) THEN segs[i]
  ELSE segs[i] \o <<SepAfter(i)>> \o JoinFrom(segs, i + 1)

\* sample_contracts(): required_tests
SampleRequired == <<"Residue", ";", "Purity">>

RequiredTexts ==
  {JoinFrom(segs, 1) : segs \in UNION {[1..n -> SegmentPool] : n \in 0..MaxRequired}}
    \cup {SampleRequired}

\* (sample_collection_date, contract_deadline)
DatePairs ==
  {<<Date(2024, 1, 10), Date(2024, 2, 9)>>,
   <<Date(2024, 2, 25), Date(2024, 3, 6)>>,
   <<Date(2024, 8, 25), Date(2024, 9, 3)>>}

\* a numeric cell with a number in it, and a missing one
Num(n) == [num |-> n]
NaNum == [nan |-> TRUE]

\* int(x) of a numeric cell raises ValueError on a missing one
IntRaises(x) == x = NaNum

\* sample_contracts(): max_storage_days, and the cell left empty
MaxStorageCells == {Num(14), NaNum}

Contract(r, dp, ms) ==
  [contract_id |-> 1, required_tests |-> r, sample_collection_date |-> dp[1],
   contract_deadline |-> dp[2], max_storage_days |-> ms]

\* every required_tests text with the sample max_storage_days, and the sample
\* required_tests with either cell
Contracts ==
  {Contract(r, dp, Num(14)) : r \in RequiredTexts, dp \in DatePairs}
    \cup {Contract(SampleRequired, dp, ms) : dp \in DatePairs, ms \in MaxStorageCells}

(* ------------------------------ state ---------------------------------- *)

VARIABLES
  labs_df,        \* the Labs table
  tests_df,       \* the Tests table
  contract_row,   \* the selected contract
  pc,             \* where the script is: "start", "loop", "returned", "done",
                  \* or "failed" after an exception
  required_tests, \* schedule_for_contract: the parsed required tests
  deadline,       \* schedule_for_contract: deadline
  season,         \* schedule_for_contract: season
  day_of_sample,  \* schedule_for_contract: day_of_sample
  pos,            \* schedule_for_contract: position of the for loop in required_tests
  assignments,    \* schedule_for_contract: assignments
  sch,            \* the returned schedule
  total_cost,     \* the summary
  missed,         \* the summary
  reran,          \* TRUE once Streamlit has run the script again
  prev            \* what the run before the rerun produced

vars == <<labs_df, tests_df, contract_row, pc, required_tests, deadline, season,
          day_of_sample, pos, assignments, sch, total_cost, missed, reran, prev>>

inputs == <<labs_df, tests_df, contract_row>>

NoDate == Date(0, 0, 0)

(* ------------------------ schedule_for_contract ------------------------ *)

\* the rows of tests whose test_name.lower() is test_name.lower()
RECURSIVE MatchingRows(_, _)
MatchingRows(tests, test_name) ==
  IF tests = <<>> THEN <<>>
  ELSE IF Lower(Head(tests).test_name) = Lower(test_name)
       THEN <<Head(tests)>> \o MatchingRows(Tail(tests), test_name)
       ELSE MatchingRows(Tail(tests), test_name)

SupportsAsWritten(lab, test_name) ==
  InList(test_name, ParseLower(lab.supported_tests))

\* the three tests a lab passes to become a candidate
Supports(lab, test_name) == InList(Lower(test_name), ParseLower(lab.supported_tests))

SeasonAllowed(lab, seas) ==
  InList(<<"all">>, ParseLower(lab.seasons_allowed))
    \/ InList(<<seas>>, ParseLower(lab.seasons_allowed))

StorageIgnored(lab, req_storage) == TRUE

StorageAccepted(lab, req_storage) ==
  req_storage = <<>>
    \/ InList(Lower(req_storage), ParseLower(lab.storage_conditions_accepted))

Eligible(lab, test_name, req_storage, seas) ==
  /\ Supports(lab, test_name)
  /\ SeasonAllowed(lab, seas)
  /\ StorageAccepted(lab, req_storage)

EstFinishNoTurnaround(est_start, duration, turnaround) == AddDays(est_start, duration)

\* est_finish = est_start + timedelta(days = duration + turnaround)
EstFinish(est_start, duration, turnaround) == AddDays(est_start, duration + turnaround)

\* the tuple appended to candidates for a lab
Candidate(lab, duration, est_start, dl) ==
  LET est_finish == EstFinish(est_start, duration, lab.turnaround_days)
  IN [lab_id |-> lab.lab_id, name |-> lab.name, est_start |-> est_start,
      est_finish |-> est_finish,
      days_until_deadline |-> DaysBetween(dl, est_finish),
      price |-> lab.price_per_test]

\* the inner for loop over the labs, in row order
RECURSIVE Candidates(_, _, _, _, _, _, _)
Candidates(labs, test_name, duration, req_storage, seas, est_start, dl) ==
  IF labs = <<>> THEN <<>>
  ELSE (IF Eligible(Head(labs), test_name, req_storage, seas)
        THEN <<Candidate(Head(labs), duration, est_start, dl)>>
        ELSE <<>>)
       \o Candidates(Tail(labs), test_name, duration, req_storage, seas, est_start, dl)

KeyLessFinishOnly(a, b) == DateLess(a.est_finish, b.est_finish)

KeyLessPriceFirst(a, b) ==
  \/ a.price < b.price
  \/ a.price = b.price /\ DateLess(a.est_finish, b.est_finish)

\* the sort key (x[3], x[5]) compared as Python compares tuples
KeyLess(a, b) ==
  \/ DateLess(a.est_finish, b.est_finish)
  \/ a.est_finish = b.est_finish /\ a.price < b.price

RECURSIVE InsertSortedUnstable(_, _)
InsertSortedUnstable(x, s) ==
  IF s = <<>> THEN <<x>>
  ELSE IF ~KeyLess(Head(s), x) THEN <<x>> \o s
  ELSE <<Head(s)>> \o InsertSortedUnstable(x, Tail(s))

\* x goes behind every element whose key is not greater: the sort is stable
RECURSIVE InsertSorted(_, _)
InsertSorted(x, s) ==
  IF s = <<>> THEN <<x>>
  ELSE IF KeyLess(x, Head(s)) THEN <<x>> \o s
  ELSE <<Head(s)>> \o InsertSorted(x, Tail(s))

RECURSIVE SortedFrom(_, _)
SortedFrom(c, acc) ==
  IF c = <<>> THEN acc ELSE SortedFrom(Tail(c), InsertSorted(Head(c), acc))

\* sorted(candidates, key = lambda x: (x[3], x[5]))
Sorted(c) == SortedFrom(c, <<>>)

StatusLateOnDeadlineDay(days) == IF days > 0 THEN "scheduled" ELSE "will miss deadline"

\* 'scheduled' if chosen[4] >= 0 else 'will miss deadline'
StatusOf(days) == IF days >= 0 THEN "scheduled" ELSE "will miss deadline"

NotFoundStatus == "test not found in tests.xlsx"
NoLabStatus == "no suitable lab found"

NotFoundAsNoLab(test_name) == [test_name |-> test_name, status |-> NoLabStatus]

\* the dict appended for an unknown test name
NotFoundAssignment(test_name) == [test_name |-> test_name, status |-> NotFoundStatus]

\* the dict appended when no lab is a candidate
NoLabAssignment(test_name) == [test_name |-> test_name, status |-> NoLabStatus]

\* the dict appended for the chosen candidate
ChosenAssignment(test_name, chosen) ==
  [test_name |-> test_name, lab_id |-> chosen.lab_id, lab_name |-> chosen.name,
   start_date |-> chosen.est_start, finish_date |-> chosen.est_finish,
   days_before_deadline |-> chosen.days_until_deadline, price |-> chosen.price,
   status |-> StatusOf(chosen.days_until_deadline)]

\* the candidates, had the season been taken from the day the test starts
CurCandidatesSeasonOfStart ==
  Candidates(labs_df, required_tests[pos],
             MatchingRows(tests_df, required_tests[pos])[1].duration_days,
             Str(MatchingRows(tests_df, required_tests[pos])[1].required_storage_condition),
             months_to_season(day_of_sample.m), day_of_sample, deadline)

\* the test of the current iteration and what the loop body computes for it
CurName == required_tests[pos]
CurRows == MatchingRows(tests_df, CurName)
CurCandidates ==
  Candidates(labs_df, CurName, CurRows[1].duration_days,
             Str(CurRows[1].required_storage_condition), season, day_of_sample,
             deadline)

\* schedule_for_contract's loop as a function of its inputs: the assignments
\* appended for the names, starting the timeline at day
RECURSIVE ScheduleFrom(_, _, _, _, _, _)
ScheduleFrom(names, tests, labs, seas, day, dl) ==
  IF names = <<>> THEN <<>>
  ELSE LET rows == MatchingRows(tests, Head(names))
           candidates ==
             Candidates(labs, Head(names), rows[1].duration_days,
                        Str(rows[1].required_storage_condition), seas, day, dl)
           chosen == Sorted(candidates)[1]
       IN IF rows = <<>>
          THEN <<NotFoundAssignment(Head(names))>>
                 \o ScheduleFrom(Tail(names), tests, labs, seas, day, dl)
          ELSE IF candidates = <<>>
          THEN <<NoLabAssignment(Head(names))>>
                 \o ScheduleFrom(Tail(names), tests, labs, seas, day, dl)
          ELSE <<ChosenAssignment(Head(names), chosen)>>
                 \o ScheduleFrom(Tail(names), tests, labs, seas, chosen.est_finish, dl)

\* schedule_for_contract(contract_row, labs_df, tests_df), where it returns
ScheduleOf(contract, labs, tests) ==
  ScheduleFrom(ParseField(contract.required_tests), tests, labs,
               months_to_season(contract.sample_collection_date.m),
               contract.sample_collection_date, contract.contract_deadline)

(* ------------------------------ summary -------------------------------- *)

\* does the DataFrame built from the dicts have the column?
HasColumn(s, col) == \E i \in 1..Len(s) : col \in DOMAIN s[i]

\* the price cell of a row: NaN, skipped by sum(), where the dict has no price
PriceCell(a) == IF "price" \in DOMAIN a THEN a.price ELSE 0

RECURSIVE SumPriceAll(_)
SumPriceAll(s) ==
  IF s = <<>> THEN 0
  ELSE (IF Head(s).status \in {"scheduled", "will miss deadline"}
        THEN PriceCell(Head(s)) ELSE 0) + SumPriceAll(Tail(s))

\* sch[sch['status'] == 'scheduled']['price'].sum()
RECURSIVE SumPrice(_)
SumPrice(s) ==
  IF s = <<>> THEN 0
  ELSE (IF Head(s).status = "scheduled" THEN PriceCell(Head(s)) ELSE 0)
       + SumPrice(Tail(s))

TotalCostWithLate(s) == IF HasColumn(s, "price") THEN SumPriceAll(s) ELSE 0

TotalCost(s) == IF HasColumn(s, "price") THEN SumPrice(s) ELSE 0

\* sch[sch['status'] == 'will miss deadline'].shape[0]
Missed(s) ==
  IF HasColumn(s, "status")
  THEN Cardinality({i \in 1..Len(s) : s[i].status = "will miss deadline"})
  ELSE 0

(* ------------------------------ actions -------------------------------- *)

Init ==
  /\ labs_df \in LabTables
  /\ tests_df \in TestTables
  /\ contract_row \in Contracts
  /\ pc = "start"
  /\ required_tests = <<>>
  /\ deadline = NoDate
  /\ season = ""
  /\ day_of_sample = NoDate
  /\ pos = 0
  /\ assignments = <<>>
  /\ sch = <<>>
  /\ total_cost = 0
  /\ missed = 0
  /\ reran = FALSE
  /\ prev = [sch |-> <<>>, total_cost |-> 0, missed |-> 0]

BeginKeepsAssignments ==
  /\ pc = "start"
  /\ ~IntRaises(contract_row.max_storage_days)
  /\ required_tests' = ParseField(contract_row.required_tests)
  /\ deadline' = contract_row.contract_deadline
  /\ day_of_sample' = contract_row.sample_collection_date
  /\ season' = months_to_season(contract_row.sample_collection_date.m)
  /\ pos' = 1
  /\ pc' = "loop"
  /\ UNCHANGED <<inputs, assignments, sch, total_cost, missed, reran, prev>>

\* schedule_for_contract is called: its locals are set up
Begin ==
  /\ pc = "start"
  /\ ~IntRaises(contract_row.max_storage_days)
  /\ required_tests' = ParseField(contract_row.required_tests)
  /\ deadline' = contract_row.contract_deadline
  /\ assignments' = <<>>
  /\ day_of_sample' = contract_row.sample_collection_date
  /\ season' = months_to_season(contract_row.sample_collection_date.m)
  /\ pos' = 1
  /\ pc' = "loop"
  /\ UNCHANGED <<inputs, sch, total_cost, missed, reran, prev>>

\* schedule_for_contract is called and int(max_storage_days) raises
BeginFails ==
  /\ pc = "start"
  /\ IntRaises(contract_row.max_storage_days)
  /\ pc' = "failed"
  /\ UNCHANGED <<inputs, required_tests, deadline, season, day_of_sample, pos,
                 assignments, sch, total_cost, missed, reran, prev>>

InLoop == pc = "loop" /\ pos <= Len(required_tests)

TestNotFoundSkips ==
  /\ InLoop
  /\ CurRows = <<>>
  /\ pos' = pos + 1
  /\ UNCHANGED <<inputs, pc, required_tests, deadline, season, day_of_sample,
                 assignments, sch, total_cost, missed, reran, prev>>

\* one iteration: the test name is not in the Tests table
TestNotFound ==
  /\ InLoop
  /\ CurRows = <<>>
  /\ assignments' = Append(assignments, NotFoundAssignment(CurName))
  /\ pos' = pos + 1
  /\ UNCHANGED <<inputs, pc, required_tests, deadline, season, day_of_sample,
                 sch, total_cost, missed, reran, prev>>

NoSuitableLabWithPrice ==
  /\ InLoop
  /\ CurRows # <<>>
  /\ CurCandidates = <<>>
  /\ assignments' =
       Append(assignments,
              [test_name |-> CurName, status |-> NoLabStatus, price |-> 0])
  /\ pos' = pos + 1
  /\ UNCHANGED <<inputs, pc, required_tests, deadline, season, day_of_sample,
                 sch, total_cost, missed, reran, prev>>

\* one iteration: the test is known and no lab is a candidate
NoSuitableLab ==
  /\ InLoop
  /\ CurRows # <<>>
  /\ CurCandidates = <<>>
  /\ assignments' = Append(assignments, NoLabAssignment(CurName))
  /\ pos' = pos + 1
  /\ UNCHANGED <<inputs, pc, required_tests, deadline, season, day_of_sample,
                 sch, total_cost, missed, reran, prev>>

AssignInParallel ==
  /\ InLoop
  /\ CurRows # <<>>
  /\ LET candidates == CurCandidates
     IN /\ candidates # <<>>
        /\ assignments' =
             Append(assignments, ChosenAssignment(CurName, Sorted(candidates)[1]))
  /\ pos' = pos + 1
  /\ UNCHANGED <<inputs, pc, required_tests, deadline, season, day_of_sample,
                 sch, total_cost, missed, reran, prev>>

AssignOverlapping ==
  /\ InLoop
  /\ CurRows # <<>>
  /\ LET candidates == CurCandidates
     IN /\ candidates # <<>>
        /\ assignments' =
             Append(assignments, ChosenAssignment(CurName, Sorted(candidates)[1]))
  /\ day_of_sample' = AddDays(day_of_sample, CurRows[1].duration_days)
  /\ pos' = pos + 1
  /\ UNCHANGED <<inputs, pc, required_tests, deadline, season,
                 sch, total_cost, missed, reran, prev>>

\* one iteration: the first of the sorted candidates is assigned
Assign ==
  /\ InLoop
  /\ CurRows # <<>>
  /\ LET candidates == CurCandidates
         chosen == Sorted(candidates)[1]
     IN /\ candidates # <<>>
        /\ assignments' = Append(assignments, ChosenAssignment(CurName, chosen))
        /\ day_of_sample' = chosen.est_finish
  /\ pos' = pos + 1
  /\ UNCHANGED <<inputs, pc, required_tests, deadline, season,
                 sch, total_cost, missed, reran, prev>>

\* the loop is over: the assignments are returned as the schedule
Return ==
  /\ pc = "loop"
  /\ pos > Len(required_tests)
  /\ sch' = assignments
  /\ pc' = "returned"
  /\ UNCHANGED <<inputs, required_tests, deadline, season, day_of_sample, pos,
                 assignments, total_cost, missed, reran, prev>>

\* the summary of the returned schedule
Summarize ==
  /\ pc = "returned"
  /\ total_cost' = TotalCost(sch)
  /\ missed' = Missed(sch)
  /\ pc' = "done"
  /\ UNCHANGED <<inputs, required_tests, deadline, season, day_of_sample, pos,
                 assignments, sch, reran, prev>>

\* Streamlit runs the script again on the same tables and the same contract
Rerun ==
  /\ pc = "done"
  /\ ~reran
  /\ prev' = [sch |-> sch, total_cost |-> total_cost, missed |-> missed]
  /\ reran' = TRUE
  /\ pc' = "start"
  /\ UNCHANGED <<inputs, required_tests, deadline, season, day_of_sample, pos,
                 assignments, sch, total_cost, missed>>

Next ==
  \/ Begin
  \/ BeginFails
  \/ TestNotFound
  \/ NoSuitableLab
  \/ Assign
  \/ Return
  \/ Summarize
  \/ Rerun

Spec == Init /\ [][Next]_vars

(* ------------------------------ properties ----------------------------- *)

\* an assignment that was given a lab
Resolved(a) == a.status \in {"scheduled", "will miss deadline"}

\* the loop is running or has ended and the locals still belong to this run
Running == pc \in {"loop", "returned", "done"}

\* the finish date of the nearest resolved assignment among the first k, the
\* sample collection date where there is none
RECURSIVE TimelineAfter(_, _)
TimelineAfter(s, k) ==
  IF k = 0 THEN contract_row.sample_collection_date
  ELSE IF Resolved(s[k]) THEN s[k].finish_date
  ELSE TimelineAfter(s, k - 1)

\* the first row of the Tests table whose name is the given one, whatever the case
FirstRowIndex(test_name) ==
  CHOOSE k \in 1..Len(tests_df) :
    /\ Lower(tests_df[k].test_name) = Lower(test_name)
    /\ \A j \in 1..(k - 1) : Lower(tests_df[j].test_name) # Lower(test_name)

Known(test_name) ==
  \E k \in 1..Len(tests_df) : Lower(tests_df[k].test_name) = Lower(test_name)

\* the row of the Labs table with the given lab_id
LabOfId(id) == CHOOSE k \in 1..Len(labs_df) : labs_df[k].lab_id = id

\* C1: the schedule has one Assignment per parsed required test name, in the
\* order of required_tests: while the loop runs, one per name processed so
\* far; once returned, exactly N of them, the i-th carrying the i-th name.
C1_OnePerRequiredTest ==
  LET parsed == ParseField(contract_row.required_tests)
  IN /\ pc = "loop" =>
          /\ Len(assignments) = pos - 1
          /\ Len(assignments) <= Len(required_tests)
     /\ Running =>
          /\ required_tests = parsed
          /\ \A i \in 1..Len(assignments) :
               assignments[i].test_name = required_tests[i]
     /\ pc \in {"returned", "done"} =>
          /\ Len(sch) = Len(parsed)
          /\ \A i \in 1..Len(sch) : sch[i].test_name = parsed[i]

\* C1 witness: a returned schedule of three Assignments with three different
\* outcomes, two of them for the same test name
C1_Witness ==
  /\ pc = "done"
  /\ Len(sch) = 3
  /\ Cardinality({sch[i].status : i \in 1..3}) = 3
  /\ sch[1].test_name = sch[3].test_name

\* C2: the timeline starts at sample_collection_date, moves to the finish
\* date of a test that got a lab and stays where it is after a test that was
\* not found or found no lab; every resolved Assignment starts at the finish
\* date of the nearest resolved Assignment before it, or at
\* sample_collection_date.
C2_Chaining ==
  /\ pc = "loop" => day_of_sample = TimelineAfter(assignments, Len(assignments))
  /\ Running =>
       \A i \in 1..Len(assignments) :
         Resolved(assignments[i]) =>
           assignments[i].start_date = TimelineAfter(assignments, i - 1)

\* C2 as a step: an iteration moves the timeline exactly when it assigns a lab
C2_Step ==
  [][(pc = "loop" /\ pc' = "loop" /\ pos' = pos + 1) =>
       IF Resolved(assignments'[pos])
       THEN day_of_sample' = assignments'[pos].finish_date
       ELSE day_of_sample' = day_of_sample]_vars

\* C2 witness: a resolved test, then an unresolved one, then a resolved one
\* that starts where the first one finished, later than the sample date
C2_Witness ==
  /\ pc = "loop"
  /\ Len(assignments) = 3
  /\ Resolved(assignments[1])
  /\ ~Resolved(assignments[2])
  /\ Resolved(assignments[3])
  /\ assignments[3].start_date = assignments[1].finish_date
  /\ assignments[3].start_date # contract_row.sample_collection_date
  /\ day_of_sample = assignments[3].finish_date

WorkedExample ==
  /\ labs_df = <<LabA, LabB>>
  /\ tests_df = SampleTests
  /\ contract_row.required_tests = SampleRequired
  /\ contract_row.sample_collection_date = Date(2024, 1, 10)
  /\ contract_row.contract_deadline = Date(2024, 2, 9)

ExampleResidue ==
  [test_name |-> <<"Residue">>, lab_id |-> 1, lab_name |-> "Lab A",
   start_date |-> Date(2024, 1, 10), finish_date |-> Date(2024, 1, 20),
   days_before_deadline |-> 20, price |-> 120, status |-> "scheduled"]

\* C4 as stated: Residue and Purity both go to Lab A, total_cost 240.
C4_AsStated ==
  (WorkedExample /\ pc = "done") =>
    /\ sch = <<ExampleResidue,
               [test_name |-> <<"Purity">>, lab_id |-> 1, lab_name |-> "Lab A",
                start_date |-> Date(2024, 1, 20), finish_date |-> Date(2024, 1, 29),
                days_before_deadline |-> 11, price |-> 120, status |-> "scheduled"]>>
    /\ total_cost = 240
    /\ missed = 0

\* C4 amended: in the worked example Residue goes to Lab A (2024-01-10 to
\* 2024-01-20, 20 days before the deadline, scheduled, 120) and Purity, which
\* the sample Tests table stores at "room", finds no suitable lab; total_cost
\* is 120 and missed_count 0.
C4_WorkedExample ==
  (WorkedExample /\ pc = "done") =>
    /\ sch = <<ExampleResidue,
               [test_name |-> <<"Purity">>, status |-> "no suitable lab found"]>>
    /\ total_cost = 120
    /\ missed = 0

\* C4 witness: the worked example has been scheduled and summed up
C4_Witness == WorkedExample /\ pc = "done" /\ Len(sch) = 2

\* C5 as stated: the status of an unknown test is 'test not found'.
C5_AsStated ==
  \A i \in 1..Len(assignments) :
    /\ assignments[i].status \in
         {"scheduled", "will miss deadline", "no suitable lab found", "test not found"}
    /\ ~Known(assignments[i].test_name) => assignments[i].status = "test not found"

\* C5 amended: the status is one of 'scheduled', 'will miss deadline',
\* 'no suitable lab found' and 'test not found in tests.xlsx', and a test name
\* that matches no row of the Tests table gets the last one.
C5_Statuses ==
  \A i \in 1..Len(assignments) :
    /\ assignments[i].status \in
         {"scheduled", "will miss deadline", "no suitable lab found",
          "test not found in tests.xlsx"}
    /\ ~Known(assignments[i].test_name) <=>
         assignments[i].status = "test not found in tests.xlsx"

\* C5 witness: an unknown test name has got its Assignment, and a later test
\* was processed after it
C5_Witness ==
  /\ Running
  /\ \E i \in 1..Len(assignments) :
       /\ ~Known(assignments[i].test_name)
       /\ i < Len(assignments)

\* C6: a resolved Assignment is 'scheduled' exactly when it finishes on or
\* before contract_deadline (the deadline day itself is on time) and 'will miss
\* deadline' exactly when it finishes after it; a late test still names its
\* lab and the timeline moves to its finish date.
C6_DeadlineStatus ==
  Running =>
    \A i \in 1..Len(assignments) :
      Resolved(assignments[i]) =>
        LET a == assignments[i]
            late == DateLess(contract_row.contract_deadline, a.finish_date)
        IN /\ a.status = "scheduled" <=> ~late
           /\ a.status = "scheduled" <=> a.days_before_deadline >= 0
           /\ a.status = "will miss deadline" <=> late
           /\ late =>
                /\ \E k \in 1..Len(labs_df) :
                     labs_df[k].lab_id = a.lab_id /\ labs_df[k].name = a.lab_name
                /\ TimelineAfter(assignments, i) = a.finish_date
                /\ (pc = "loop" /\ i = Len(assignments)) => day_of_sample = a.finish_date

\* C6 witness: a test that finishes on the deadline day and is scheduled, a
\* late test after it, and a third test that starts where the late one ended
C6_Witness ==
  /\ pc = "loop"
  /\ Len(assignments) = 3
  /\ Resolved(assignments[1])
  /\ assignments[1].finish_date = contract_row.contract_deadline
  /\ assignments[1].status = "scheduled"
  /\ assignments[2].status = "will miss deadline"
  /\ Resolved(assignments[3])
  /\ assignments[3].start_date = assignments[2].finish_date

\* the sum of the prices of the rows of s whose index is in idx
RECURSIVE PriceSum(_, _)
PriceSum(s, idx) ==
  IF idx = {} THEN 0
  ELSE LET i == CHOOSE j \in idx : TRUE
       IN s[i].price + PriceSum(s, idx \ {i})

\* C7: total_cost is the sum of the prices of the 'scheduled' Assignments
\* only (0 when there is none), and missed_count is the number of 'will miss
\* deadline' Assignments.
C7_Summary ==
  pc = "done" =>
    /\ total_cost = PriceSum(sch, {i \in 1..Len(sch) : sch[i].status = "scheduled"})
    /\ missed = Cardinality({i \in 1..Len(sch) : sch[i].status = "will miss deadline"})
    /\ (\A i \in 1..Len(sch) : sch[i].status # "scheduled") => total_cost = 0

\* C7 witness: a summed-up schedule with a scheduled and a late Assignment,
\* both with a price
C7_Witness ==
  /\ pc = "done"
  /\ \E i, j \in 1..Len(sch) :
       /\ sch[i].status = "scheduled" /\ sch[i].price > 0
       /\ sch[j].status = "will miss deadline" /\ sch[j].price > 0
  /\ total_cost > 0
  /\ missed > 0

\* C7 witness of the empty case: a summed-up schedule without any resolved
\* Assignment
C7_WitnessNoneResolved ==
  /\ pc = "done"
  /\ Len(sch) > 0
  /\ \A i \in 1..Len(sch) : ~Resolved(sch[i])
  /\ total_cost = 0

\* C8: run again on the same contract and tables, the script produces the
\* same schedule and the same summary as before.
C8_Determinism ==
  (pc = "done" /\ reran) =>
    /\ sch = prev.sch
    /\ total_cost = prev.total_cost
    /\ missed = prev.missed

\* two rows of the Labs table that are candidates for the i-th Assignment of
\* sch with the same finish date and the same price
TieAt(i) ==
  \E k, l \in 1..Len(labs_df) :
    /\ k # l
    /\ \A m \in {k, l} :
         /\ Eligible(labs_df[m], sch[i].test_name,
                     Str(tests_df[FirstRowIndex(sch[i].test_name)].required_storage_condition),
                     months_to_season(contract_row.sample_collection_date.m))
         /\ labs_df[m].turnaround_days =
              labs_df[LabOfId(sch[i].lab_id)].turnaround_days
         /\ labs_df[m].price_per_test = sch[i].price

\* C8 witness: the second run has ended, and one of its Assignments was a
\* choice between two labs with the same finish date and price
C8_Witness ==
  /\ pc = "done"
  /\ reran
  /\ \E i \in 1..Len(sch) : Resolved(sch[i]) /\ TieAt(i)

\* C9: with positive durations and non-negative turnarounds, a resolved
\* Assignment never starts before an earlier resolved Assignment of the
\* schedule has finished, whichever labs they are given to.
C9_Serial ==
  ((\A k \in 1..Len(tests_df) : tests_df[k].duration_days > 0)
     /\ (\A k \in 1..Len(labs_df) : labs_df[k].turnaround_days >= 0)
     /\ Running) =>
    \A i, j \in 1..Len(assignments) :
      (i < j /\ Resolved(assignments[i]) /\ Resolved(assignments[j])) =>
        /\ ~DateLess(assignments[j].start_date, assignments[i].finish_date)
        /\ DateLess(assignments[i].start_date, assignments[i].finish_date)

\* C9 witness: two resolved Assignments given to different labs, the second
\* of a lab with a turnaround
C9_Witness ==
  /\ Running
  /\ \E i, j \in 1..Len(assignments) :
       /\ i < j
       /\ Resolved(assignments[i])
       /\ Resolved(assignments[j])
       /\ assignments[i].lab_id # assignments[j].lab_id
       /\ labs_df[LabOfId(assignments[i].lab_id)].turnaround_days > 0

LabFields ==
  {"lab_id", "lab_name", "start_date", "finish_date", "days_before_deadline", "price"}

\* C10: an Assignment has the fields lab_id, lab_name, start_date,
\* finish_date, days_before_deadline and price if and only if its status is
\* 'scheduled' or 'will miss deadline'; any other Assignment has test_name and
\* status only.
C10_LabFields ==
  \A i \in 1..Len(assignments) :
    /\ \A f \in LabFields : f \in DOMAIN assignments[i] <=> Resolved(assignments[i])
    /\ ~Resolved(assignments[i]) => DOMAIN assignments[i] = {"test_name", "status"}
    /\ {"test_name", "status"} \subseteq DOMAIN assignments[i]

\* C10 witness: a schedule with an unknown test, a test without a suitable
\* lab and a resolved test
C10_Witness ==
  \E i, j, k \in 1..Len(assignments) :
    /\ assignments[i].status = NotFoundStatus
    /\ assignments[j].status = NoLabStatus
    /\ Resolved(assignments[k])

(* ---------------------- properties, continued -------------------------- *)

\* str.upper() of one atom
UpperAtom(a) ==
  CASE a \in {"Residue", "residue"}   -> "RESIDUE"
    [] a \in {"Purity", "purity"}     -> "PURITY"
    [] a \in {"Moisture", "moisture"} -> "MOISTURE"
    [] OTHER -> a

RECURSIVE Upper(_)
Upper(s) == IF s = <<>> THEN <<>> ELSE <<UpperAtom(Head(s))>> \o Upper(Tail(s))

\* the changes of letter case tried, as <<required_tests, supported_tests,
\* test_name>>: each text alone
CaseChanges ==
  {<<"upper", "same", "same">>, <<"same", "upper", "same">>,
   <<"same", "same", "upper">>}

Recase(how, s) ==
  IF s = NaN \/ how = "same" THEN s
  ELSE IF how = "upper" THEN Upper(s) ELSE Lower(s)

RECURSIVE RecaseTests(_, _)
RecaseTests(how, tests) ==
  IF tests = <<>> THEN <<>>
  ELSE <<[Head(tests) EXCEPT !.test_name = Recase(how, Head(tests).test_name)]>>
       \o RecaseTests(how, Tail(tests))

RECURSIVE RecaseLabs(_, _)
RecaseLabs(how, labs) ==
  IF labs = <<>> THEN <<>>
  ELSE <<[Head(labs) EXCEPT
            !.supported_tests = Recase(how, Head(labs).supported_tests)]>>
       \o RecaseLabs(how, Tail(labs))

RecaseContract(how, contract) ==
  [contract EXCEPT !.required_tests = Recase(how, contract.required_tests)]

\* an Assignment without its test_name
Outcome(a) == [f \in DOMAIN a \ {"test_name"} |-> a[f]]

Outcomes(s) == [i \in 1..Len(s) |-> Outcome(s[i])]

\* the run returns what the loop computes as a function of the inputs
ScheduleIsFunctionOfInputs ==
  pc \in {"returned", "done"} => sch = ScheduleOf(contract_row, labs_df, tests_df)

\* C11: test names are matched whatever their letter case: with the case of
\* the names changed in required_tests, in the Tests table's test_name or in
\* the labs' supported_tests, every Assignment keeps its status, lab, dates
\* and price.
C11_CaseInsensitive ==
  (pc = "done" /\ ~reran) =>
    \A how \in CaseChanges :
      Outcomes(ScheduleOf(RecaseContract(how[1], contract_row),
                          RecaseLabs(how[2], labs_df),
                          RecaseTests(how[3], tests_df)))
        = Outcomes(sch)

\* C11 witness: a resolved Assignment whose test name is written in
\* required_tests in another case than in the Tests table and than in the
\* supported_tests of its lab
C11_Witness ==
  /\ pc = "done"
  /\ ~reran
  /\ \E i \in 1..Len(sch) :
       /\ Resolved(sch[i])
       /\ tests_df[FirstRowIndex(sch[i].test_name)].test_name # sch[i].test_name
       /\ ~InList(sch[i].test_name,
                  ParseField(labs_df[LabOfId(sch[i].lab_id)].supported_tests))
       /\ ~InList(sch[i].test_name,
                  ParseLower(labs_df[LabOfId(sch[i].lab_id)].supported_tests))

\* the season resolved for the contract
ContractSeason == months_to_season(contract_row.sample_collection_date.m)

\* the row of the Tests table used for a known test name
RowOf(test_name) == tests_df[FirstRowIndex(test_name)]

\* a storage condition cell that states no condition: the empty text, or a
\* cell left empty in the sheet
EmptyCell(cell) == cell = <<>> \/ cell = NaN

\* the three eligibility conditions, as the specification states them
MeetsConditions(lab, test_name, cell, seas) ==
  /\ InList(Lower(test_name), ParseLower(lab.supported_tests))
  /\ \/ InList(<<"all">>, ParseLower(lab.seasons_allowed))
     \/ InList(<<seas>>, ParseLower(lab.seasons_allowed))
  /\ \/ EmptyCell(cell)
     \/ InList(Lower(cell), ParseLower(lab.storage_conditions_accepted))

\* the filter is right about the i-th Assignment, of a known test
FilterRightAt(i) ==
  LET a == assignments[i]
      cell == RowOf(a.test_name).required_storage_condition
  IN /\ Resolved(a) =>
          MeetsConditions(labs_df[LabOfId(a.lab_id)], a.test_name, cell, ContractSeason)
     /\ a.status = NoLabStatus <=>
          ~\E k \in 1..Len(labs_df) :
              MeetsConditions(labs_df[k], a.test_name, cell, ContractSeason)

\* C12: for a test of the Tests table, the lab of a resolved Assignment meets
\* the three eligibility conditions (it supports the test, allows the season,
\* and the test's storage condition is empty or accepted by the lab), and the
\* status is 'no suitable lab found' exactly when no lab meets all three.
C12_AsStated ==
  Running =>
    \A i \in 1..Len(assignments) :
      Known(assignments[i].test_name) => FilterRightAt(i)

\* C12 where the storage condition cell of the test is a text: the filter is
\* right about every such Assignment
C12_FilterOnTextCells ==
  Running =>
    \A i \in 1..Len(assignments) :
      (Known(assignments[i].test_name)
         /\ RowOf(assignments[i].test_name).required_storage_condition # NaN)
        => FilterRightAt(i)

\* C14: a test whose required_storage_condition is empty has no storage
\* constraint: every lab that supports it and allows the season is a
\* candidate for it, whatever the lab accepts, so the test is resolved
\* whenever there is such a lab.
C14_AsStated ==
  Running =>
    \A i \in 1..Len(assignments) :
      (Known(assignments[i].test_name)
         /\ EmptyCell(RowOf(assignments[i].test_name).required_storage_condition))
        => \A k \in 1..Len(labs_df) :
             (Supports(labs_df[k], assignments[i].test_name)
                /\ SeasonAllowed(labs_df[k], ContractSeason))
               => /\ Eligible(labs_df[k], assignments[i].test_name,
                              Str(RowOf(assignments[i].test_name).required_storage_condition),
                              ContractSeason)
                  /\ Resolved(assignments[i])

\* C14 where the cell holds the empty text: no storage constraint
C14_EmptyText ==
  Running =>
    \A i \in 1..Len(assignments) :
      (Known(assignments[i].test_name)
         /\ RowOf(assignments[i].test_name).required_storage_condition = <<>>)
        => \A k \in 1..Len(labs_df) :
             (Supports(labs_df[k], assignments[i].test_name)
                /\ SeasonAllowed(labs_df[k], ContractSeason))
               => Resolved(assignments[i])

\* the day a lab would finish the test of the i-th Assignment, started where
\* that Assignment starts, as a day number
FinishWith(i, lab) ==
  ToOrdinal(assignments[i].start_date)
    + RowOf(assignments[i].test_name).duration_days + lab.turnaround_days

\* the rows of the Labs table that meet the conditions for the i-th Assignment
EligibleRows(i) ==
  {k \in 1..Len(labs_df) :
     MeetsConditions(labs_df[k], assignments[i].test_name,
                     RowOf(assignments[i].test_name).required_storage_condition,
                     ContractSeason)}

\* C13: the chosen lab finishes no later than any eligible lab, and costs no
\* more than any eligible lab that finishes on the same day; a cheaper lab
\* that finishes later is not chosen.
C13_Ranking ==
  pc = "returned" =>
    \A i \in 1..Len(assignments) :
      Resolved(assignments[i]) =>
        LET rows == EligibleRows(i)
            finish == ToOrdinal(assignments[i].finish_date)
        IN /\ LabOfId(assignments[i].lab_id) \in rows
           /\ \A k \in rows :
                /\ FinishWith(i, labs_df[k]) >= finish
                /\ FinishWith(i, labs_df[k]) = finish
                     => labs_df[k].price_per_test >= assignments[i].price

\* C13 witness: the chosen lab is the cheaper of two eligible labs that finish
\* on the same day, and it is not the first of them in the Labs table
C13_Witness ==
  /\ pc = "returned"
  /\ \E i \in 1..Len(assignments) :
       /\ Resolved(assignments[i])
       /\ \E k \in EligibleRows(i) :
            /\ FinishWith(i, labs_df[k]) = ToOrdinal(assignments[i].finish_date)
            /\ labs_df[k].price_per_test > assignments[i].price
            /\ k < LabOfId(assignments[i].lab_id)

\* C13, second witness: the chosen lab is dearer than an eligible lab that
\* finishes later
C13_WitnessCheaperLater ==
  /\ pc = "returned"
  /\ \E i \in 1..Len(assignments) :
       /\ Resolved(assignments[i])
       /\ \E k \in EligibleRows(i) :
            /\ FinishWith(i, labs_df[k]) > ToOrdinal(assignments[i].finish_date)
            /\ labs_df[k].price_per_test < assignments[i].price

\* the season of each month
SeasonByMonth ==
  [m \in 1..12 |->
     IF m \in {12, 1, 2} THEN "winter"
     ELSE IF m \in {3, 4, 5} THEN "spring"
     ELSE IF m \in {6, 7, 8} THEN "summer"
     ELSE "autumn"]

\* does the lab allow the season?
Allows(lab, seas) ==
  InList(<<"all">>, ParseLower(lab.seasons_allowed))
    \/ InList(<<seas>>, ParseLower(lab.seasons_allowed))

\* C15: the season is the one of the month of sample_collection_date
\* (Dec-Feb winter, Mar-May spring, Jun-Aug summer, Sep-Nov autumn) and is
\* the same for every test of the chain: the lab of a resolved Assignment
\* allows that season, and a lab that supports the test and accepts its
\* storage condition is passed over only if it does not allow that season,
\* whatever the month the test starts in.
C15_SeasonOnce ==
  /\ pc = "start" => \A m \in 1..12 : months_to_season(m) = SeasonByMonth[m]
  /\ Running => season = SeasonByMonth[contract_row.sample_collection_date.m]
  /\ pc = "returned" =>
       LET seas == SeasonByMonth[contract_row.sample_collection_date.m]
       IN \A i \in 1..Len(assignments) :
            LET a == assignments[i]
            IN /\ Resolved(a) => Allows(labs_df[LabOfId(a.lab_id)], seas)
               /\ a.status = NoLabStatus =>
                    \A k \in 1..Len(labs_df) :
                      (Supports(labs_df[k], a.test_name)
                         /\ StorageAccepted(labs_df[k],
                              Str(RowOf(a.test_name).required_storage_condition)))
                        => ~Allows(labs_df[k], seas)

\* C15 witness: a resolved Assignment that starts in a month of another
\* season than the contract's, in a lab that does not allow the season of
\* that month
C15_Witness ==
  /\ Running
  /\ \E i \in 1..Len(assignments) :
       /\ Resolved(assignments[i])
       /\ SeasonByMonth[assignments[i].start_date.m]
            # SeasonByMonth[contract_row.sample_collection_date.m]
       /\ ~Allows(labs_df[LabOfId(assignments[i].lab_id)],
                  SeasonByMonth[assignments[i].start_date.m])

\* the inputs with the fields the scheduler does not use set to fixed values
ResetLabs(labs) == [k \in 1..Len(labs) |-> [labs[k] EXCEPT !.capacity_per_day = 1]]

ResetTests(tests) == [k \in 1..Len(tests) |-> [tests[k] EXCEPT !.season_required = <<>>]]

ResetContract(contract) == [contract EXCEPT !.max_storage_days = Num(30)]

\* C16: capacity_per_day, season_required and max_storage_days (any values,
\* a missing one included) have no influence: the call on any inputs ends
\* with the schedule of the same inputs with these fields set to fixed values.
C16_AsStated ==
  pc \in {"done", "failed"} =>
    /\ pc = "done"
    /\ sch = ScheduleOf(ResetContract(contract_row), ResetLabs(labs_df),
                        ResetTests(tests_df))

\* C16 where the call returns: the schedule is that of the inputs with the
\* three fields set to fixed values
C16_WhereReturned ==
  pc = "done" =>
    sch = ScheduleOf(ResetContract(contract_row), ResetLabs(labs_df),
                     ResetTests(tests_df))

\* a lab with capacity_per_day 0 is given two tests of one contract
C16_CapacityNotEnforced ==
  /\ pc = "done"
  /\ \E i, j \in 1..Len(sch) :
       /\ i < j
       /\ Resolved(sch[i])
       /\ Resolved(sch[j])
       /\ sch[i].lab_id = sch[j].lab_id
       /\ labs_df[LabOfId(sch[i].lab_id)].capacity_per_day = 0

\* the eligible rows that finish the i-th Assignment on the day its lab does,
\* at the price of its lab
TiedRows(i) ==
  {k \in EligibleRows(i) :
     /\ FinishWith(i, labs_df[k]) = ToOrdinal(assignments[i].finish_date)
     /\ labs_df[k].price_per_test = assignments[i].price}

\* C17: among the eligible labs that tie on finish date and price, the one
\* in the earliest row of the Labs table is chosen, whatever its lab_id.
C17_RowOrderTieBreak ==
  pc = "returned" =>
    \A i \in 1..Len(assignments) :
      Resolved(assignments[i]) =>
        LET tied == TiedRows(i)
            chosen == LabOfId(assignments[i].lab_id)
        IN /\ chosen \in tied
           /\ \A k \in tied : chosen <= k

\* C17 witness: two labs tie, and the one chosen has the greater lab_id
C17_Witness ==
  /\ pc = "returned"
  /\ \E i \in 1..Len(assignments) :
       /\ Resolved(assignments[i])
       /\ \E k \in TiedRows(i) :
            /\ k > LabOfId(assignments[i].lab_id)
            /\ labs_df[k].lab_id < assignments[i].lab_id

\* C18: with positive durations and non-negative turnarounds the finish
\* dates of the resolved Assignments increase strictly along the schedule,
\* and no Assignment is 'scheduled' after one that 'will miss deadline'.
C18_Monotone ==
  (pc = "returned"
     /\ (\A k \in 1..Len(tests_df) : tests_df[k].duration_days > 0)
     /\ (\A k \in 1..Len(labs_df) : labs_df[k].turnaround_days >= 0)) =>
    \A i, j \in 1..Len(assignments) :
      (i < j /\ Resolved(assignments[i]) /\ Resolved(assignments[j])) =>
        /\ DateLess(assignments[i].finish_date, assignments[j].finish_date)
        /\ assignments[i].status = "will miss deadline"
             => assignments[j].status = "will miss deadline"

\* C18 witness: a scheduled test, then a late one, then another late one
C18_Witness ==
  /\ pc = "returned"
  /\ \E h, i, j \in 1..Len(assignments) :
       /\ h < i /\ i < j
       /\ assignments[h].status = "scheduled"
       /\ assignments[i].status = "will miss deadline"
       /\ assignments[j].status = "will miss deadline"

\* the rows of the Labs table that the loop takes as candidates for the
\* i-th required test
CandidateRows(i) ==
  IF ~Known(assignments[i].test_name) THEN {}
  ELSE {k \in 1..Len(labs_df) :
          Eligible(labs_df[k], assignments[i].test_name,
                   Str(RowOf(assignments[i].test_name).required_storage_condition),
                   ContractSeason)}

\* the candidate rows of the i-th required test and of those after it
RECURSIVE CandidateRowsFrom(_)
CandidateRowsFrom(i) ==
  IF i > Len(assignments) THEN <<>>
  ELSE <<CandidateRows(i)>> \o CandidateRowsFrom(i + 1)

\* the duration of the i-th required test and of those after it, 0 for a
\* name that is not in the Tests table
RECURSIVE DurationsFrom(_)
DurationsFrom(i) ==
  IF i > Len(assignments) THEN <<>>
  ELSE <<IF Known(assignments[i].test_name)
         THEN RowOf(assignments[i].test_name).duration_days ELSE 0>>
       \o DurationsFrom(i + 1)

\* the required tests that have a candidate: the tests of the chain
ChainPositions(rows) == {i \in 1..Len(rows) : rows[i] # {}}

\* every way of giving each test of the chain one of its candidate labs
LabChoices(rows) ==
  {alt \in [ChainPositions(rows) -> 1..Len(labs_df)] :
     \A i \in ChainPositions(rows) : alt[i] \in rows[i]}

\* the day the i-th test finishes under a choice of labs, each test of the
\* chain starting when the one before it finishes
RECURSIVE ChainFinish(_, _, _)
ChainFinish(alt, durations, i) ==
  IF i = 0 THEN ToOrdinal(contract_row.sample_collection_date)
  ELSE ChainFinish(alt, durations, i - 1)
         + (IF i \in DOMAIN alt
            THEN durations[i] + labs_df[alt[i]].turnaround_days
            ELSE 0)

\* C19: the returned schedule resolves exactly the tests that have an
\* eligible lab, and no choice of eligible labs for them, chained serially,
\* finishes any test, or the last one, earlier than the schedule does; the
\* schedule's own choice is one of them.
C19_GreedyEarliest ==
  pc = "returned" =>
    LET rows == CandidateRowsFrom(1)
        durations == DurationsFrom(1)
        chain == ChainPositions(rows)
        choices == LabChoices(rows)
    IN /\ chain = {i \in 1..Len(assignments) : Resolved(assignments[i])}
       /\ \A alt \in choices : \A i \in chain :
            ToOrdinal(assignments[i].finish_date) <= ChainFinish(alt, durations, i)
       /\ \E alt \in choices : \A i \in chain :
            /\ labs_df[alt[i]].lab_id = assignments[i].lab_id
            /\ ToOrdinal(assignments[i].finish_date) = ChainFinish(alt, durations, i)

\* C19 witness: a chain of two tests or more with a choice of labs that gives
\* the last test the lab the schedule gives it and still finishes it later
C19_Witness ==
  /\ pc = "returned"
  /\ LET rows == CandidateRowsFrom(1)
         durations == DurationsFrom(1)
         chain == ChainPositions(rows)
     IN \E i, j \in chain :
          /\ i < j
          /\ \A k \in chain : k <= j
          /\ \E alt \in LabChoices(rows) :
               /\ labs_df[alt[j]].lab_id = assignments[j].lab_id
               /\ ChainFinish(alt, durations, j) > ToOrdinal(assignments[j].finish_date)

====
